---- MODULE Spec2Model ----
(***************************************************************************)
(* NutriScoreCalculator (src/src/backend/nutri_score.py) as a state        *)
(* machine: the criteria loaded by the constructor, the result cache, and  *)
(* calculate_score as the one operation.                                   *)
(*                                                                         *)
(* Conventions of the model                                                *)
(*  - A Python str is a sequence of one-character strings.  The character  *)
(*    U+2264 (less-than-or-equal sign) is written "<=" and U+2265          *)
(*    (greater-than-or-equal sign) is written ">="; each is ONE character. *)
(*  - A number is an integer count of hundredths (1.2 is 120).  The float  *)
(*    product value * 4.184 is never formed: the comparison of it with a   *)
(*    threshold is made exactly, both sides scaled (see Scaled).           *)
(*  - A Python dict is a function whose DOMAIN is its key set; the dict    *)
(*    {} is the function with the empty domain.  A dict whose insertion    *)
(*    order the code reads is a sequence of <<key, value>> pairs.          *)
(*  - A value that can be a number or a str is tagged: [num |-> n] or      *)
(*    [str |-> s].                                                         *)
(***************************************************************************)
EXTENDS Integers, Sequences, FiniteSets, TLC

VARIABLES
  doc,       \* the file the constructor was given (what _load_criteria read)
  criteria,  \* self.criteria
  cache,     \* self._calculation_cache, in insertion order: <<key, result>> pairs
  history,   \* the calls made so far: arguments and outcome of each
  frames     \* the calls in progress on threads, each with its position and locals

vars == <<doc, criteria, cache, history, frames>>

---------------------------------------------------------------------------
(* Python str and dict primitives *)

EmptyDict == [k \in {} |-> 0]

Get(d, k, default) == IF k \in DOMAIN d THEN d[k] ELSE default

Contains(s, c) == \E i \in 1..Len(s) : s[i] = c

ContainsTo(s) == \E i \in 1..(Len(s) - 1) : s[i] = "t" /\ s[i + 1] = "o"

IsSpace(c) == c \in {" ", "\t", "\n"}

DigitChars == <<"0", "1", "2", "3", "4", "5", "6", "7", "8", "9">>

IsDigit(c) == \E i \in 1..10 : DigitChars[i] = c

DigitVal(c) == (CHOOSE i \in 1..10 : DigitChars[i] = c) - 1

\* s.split(c): the pieces of s between the occurrences of the character c
RECURSIVE SplitFrom(_, _, _, _)
SplitFrom(s, c, i, cur) ==
  IF i > Len(s) THEN <<cur>>
  ELSE IF s[i] = c THEN <<cur>> \o SplitFrom(s, c, i + 1, <<>>)
  ELSE SplitFrom(s, c, i + 1, Append(cur, s[i]))

Split(s, c) == SplitFrom(s, c, 1, <<>>)

\* s.split('to')
RECURSIVE SplitToFrom(_, _, _)
SplitToFrom(s, i, cur) ==
  IF i > Len(s) THEN <<cur>>
  ELSE IF i < Len(s) /\ s[i] = "t" /\ s[i + 1] = "o"
       THEN <<cur>> \o SplitToFrom(s, i + 2, <<>>)
  ELSE SplitToFrom(s, i + 1, Append(cur, s[i]))

SplitTo(s) == SplitToFrom(s, 1, <<>>)

\* s.split(): the runs of non-whitespace characters
RECURSIVE WordsFrom(_, _, _)
WordsFrom(s, i, cur) ==
  IF i > Len(s) THEN (IF cur = <<>> THEN <<>> ELSE <<cur>>)
  ELSE IF IsSpace(s[i])
       THEN (IF cur = <<>> THEN <<>> ELSE <<cur>>) \o WordsFrom(s, i + 1, <<>>)
  ELSE WordsFrom(s, i + 1, Append(cur, s[i]))

Words(s) == WordsFrom(s, 1, <<>>)

\* s.strip()
RECURSIVE Strip(_)
Strip(s) ==
  IF s = <<>> THEN s
  ELSE IF IsSpace(s[1]) THEN Strip(Tail(s))
  ELSE IF IsSpace(s[Len(s)]) THEN Strip(SubSeq(s, 1, Len(s) - 1))
  ELSE s

\* ''.join(c for c in s if c.isdigit() or c == '.')
NumericPart(s) == SelectSeq(s, LAMBDA c : IsDigit(c) \/ c = ".")

RECURSIVE IntOf(_)
IntOf(ds) == IF ds = <<>> THEN 0
             ELSE IntOf(SubSeq(ds, 1, Len(ds) - 1)) * 10 + DigitVal(ds[Len(ds)])

\* float(s), in hundredths, for s made of digits, at most one '.', and an
\* optional leading sign; ok = FALSE is ValueError.  Digits after the second
\* decimal are dropped (the tables of the model carry at most two); the
\* exponent, inf, nan and underscore forms of float() are outside the model.
\* A value used more than once is passed as a parameter, so that it is
\* evaluated once.
WellFormed(body) ==
  /\ \A i \in 1..Len(body) : IsDigit(body[i]) \/ body[i] = "."
  /\ Cardinality({i \in 1..Len(body) : body[i] = "."}) <= 1
  /\ \E i \in 1..Len(body) : IsDigit(body[i])

DotIndex(body) ==
  IF Contains(body, ".") THEN CHOOSE i \in 1..Len(body) : body[i] = "."
  ELSE Len(body) + 1

Magnitude(body, dot) ==
  IntOf(SubSeq(body, 1, dot - 1)) * 100
    + IntOf(SubSeq(SubSeq(body, dot + 1, Len(body)) \o <<"0", "0">>, 1, 2))

FloatSigned(s, body) ==
  IF ~WellFormed(body) THEN [ok |-> FALSE, v |-> 0]
  ELSE [ok |-> TRUE,
        v  |-> (IF s[1] = "-" THEN -1 ELSE 1) * Magnitude(body, DotIndex(body))]

FloatStripped(s) ==
  FloatSigned(s, IF s # <<>> /\ s[1] \in {"-", "+"} THEN Tail(s) ELSE s)

Float(s) == FloatStripped(Strip(s))

---------------------------------------------------------------------------
(* _parse_threshold *)

NoneParsed == [kind |-> "none", lo |-> 0, hi |-> 0]

AsFloat(f) == IF f.ok THEN [kind |-> "float", lo |-> f.v, hi |-> f.v] ELSE NoneParsed

\* words is value_str.split(): no first word is the IndexError, which is
\* caught like the ValueError of float(): None.
ParseFirstWord(words) ==
  IF words = <<>> THEN NoneParsed ELSE AsFloat(Float(NumericPart(words[1])))

\* The text after the first occurrence of the operator character c, cut at
\* the next one; its first whitespace-separated word, digits and '.' kept.
ParseAfter(threshold_str, c) == ParseFirstWord(Words(Split(threshold_str, c)[2]))

\* values is the list of float(numeric_part), one per piece between '-'.
AsRange(values) ==
  IF \E i \in 1..Len(values) : ~values[i].ok THEN NoneParsed
  ELSE [kind |-> "list", lo |-> values[1].v, hi |-> values[Len(values)].v]

FloatEach(parts) == [i \in 1..Len(parts) |-> Float(NumericPart(parts[i]))]

ParseRange(threshold_str) == AsRange(FloatEach(Split(threshold_str, "-")))

\* The first two branches differ in the character alone.
_parse_threshold(threshold_str) ==
  IF Contains(threshold_str, "<=") \/ Contains(threshold_str, ">")
    THEN ParseAfter(threshold_str, IF Contains(threshold_str, "<=") THEN "<=" ELSE ">")
  ELSE IF Contains(threshold_str, "-") THEN ParseRange(threshold_str)
  ELSE NoneParsed

---------------------------------------------------------------------------
(* _get_points_for_component *)

KcalLimit == 1000

IsNum(value) == "num" \in DOMAIN value

\* Converts without the test of conversion_note: the energy value of any table
\* is converted.
ConvertsAnyTable(component_name, component, value) ==
  /\ component_name = "energy_calories"
  /\ value.num < KcalLimit * 100

\* Whether the energy value is multiplied by 4.184 before the comparison.
Converts(component_name, component, value) ==
  /\ component_name = "energy_calories"
  /\ "conversion_note" \in DOMAIN component
  /\ value.num < KcalLimit * 100

\* Both sides of a comparison on one scale: 4.184 = 523 / 125.
Scaled(n, converted) == IF converted THEN n * 523 ELSE n * 125

\* The test the loop makes at one point level, for a parsed threshold.
Satisfied(threshold_str, parsed, x) ==
  IF parsed.kind = "list" THEN Scaled(parsed.lo, FALSE) <= x /\ x <= Scaled(parsed.hi, FALSE)
  ELSE \/ Contains(threshold_str, "<=") /\ x <= Scaled(parsed.lo, FALSE)
       \/ Contains(threshold_str, ">") /\ x > Scaled(parsed.lo, FALSE)

\* LevelOutcome where a threshold that does not parse raises.
LevelOutcomeUnparsedRaises(threshold_str, parsed, value, points) ==
  IF parsed.kind = "none" \/ ~IsNum(value) THEN [next |-> -1, raised |-> TRUE, points |-> 0]
  ELSE IF Satisfied(threshold_str, parsed, value.num)
    THEN [next |-> -1, raised |-> FALSE, points |-> points]
  ELSE [next |-> points + 1]

\* for points in range(max_points + 1), from level `points` on.  A numeric
\* value arrives already on the comparison scale (Scaled); a str value raises
\* TypeError at the first comparison.  next is the level the loop goes on
\* with, or -1 when the body returns or raises.
LevelOutcome(threshold_str, parsed, value, points) ==
  IF parsed.kind = "none" THEN [next |-> points + 1]
  ELSE IF ~IsNum(value) THEN [next |-> -1, raised |-> TRUE, points |-> 0]
  ELSE IF Satisfied(threshold_str, parsed, value.num)
    THEN [next |-> -1, raised |-> FALSE, points |-> points]
  ELSE [next |-> points + 1]

RECURSIVE ScanLevels(_, _, _, _)
Continue(thresholds, max_points, value, outcome) ==
  IF outcome.next < 0 THEN [raised |-> outcome.raised, points |-> outcome.points]
  ELSE ScanLevels(thresholds, max_points, value, outcome.next)

\* ScanLevels that gives 0 when no level is satisfied.
ScanLevelsFallbackZero(thresholds, max_points, value, points) ==
  IF points > max_points THEN [raised |-> FALSE, points |-> 0]
  ELSE Continue(thresholds, max_points, value,
                IF points \notin DOMAIN thresholds THEN [next |-> points + 1]
                ELSE LevelOutcome(thresholds[points], _parse_threshold(thresholds[points]),
                                  value, points))

ScanLevels(thresholds, max_points, value, points) ==
  IF points > max_points THEN [raised |-> FALSE, points |-> max_points]
  ELSE Continue(thresholds, max_points, value,
                IF points \notin DOMAIN thresholds THEN [next |-> points + 1]
                ELSE LevelOutcome(thresholds[points], _parse_threshold(thresholds[points]),
                                  value, points))

\* PointsFor with the levels taken one past max_points.
PointsForOnePast(component_name, component, value) ==
  IF component_name = "energy_calories" /\ "conversion_note" \in DOMAIN component
       /\ ~IsNum(value)
    THEN [raised |-> TRUE, points |-> 0]
  ELSE ScanLevels(Get(component, "thresholds", EmptyDict),
                  Get(component, "max_points", 0) + 1,
                  IF IsNum(value)
                    THEN [num |-> Scaled(value.num, Converts(component_name, component, value))]
                  ELSE value,
                  0)

\* The component found (not {}): lines 97-129.
PointsFor(component_name, component, value) ==
  IF component_name = "energy_calories" /\ "conversion_note" \in DOMAIN component
       /\ ~IsNum(value)
    THEN [raised |-> TRUE, points |-> 0]
  ELSE ScanLevels(Get(component, "thresholds", EmptyDict),
                  Get(component, "max_points", 0),
                  IF IsNum(value)
                    THEN [num |-> Scaled(value.num, Converts(component_name, component, value))]
                  ELSE value,
                  0)

Lookup(components, component_name, value) ==
  IF DOMAIN Get(components, component_name, EmptyDict) = {}
    THEN [raised |-> FALSE, points |-> 0]
  ELSE PointsFor(component_name, components[component_name], value)

\* thresholds is keyed by point level: level p stands for the key "p_points".
_get_points_for_component(crit, component_name, value, is_negative) ==
  Lookup(IF is_negative THEN Get(crit, "negative_components", EmptyDict)
         ELSE Get(crit, "positive_components", EmptyDict),
         component_name, value)

---------------------------------------------------------------------------
(* calculate_score: the nutrient record and the cache key *)

\* nutrition_data is a dict in insertion order: <<key, value>> pairs.
Has(nutrition_data, key) == \E i \in 1..Len(nutrition_data) : nutrition_data[i][1] = key

Val(nutrition_data, key) ==
  nutrition_data[CHOOSE i \in 1..Len(nutrition_data) : nutrition_data[i][1] = key][2]

\* The order of Python's str comparison on the seven nutrient keys.
KeyOrder == <<"energy_kcal", "fiber_g", "fruits_veg_nuts_percent", "protein_g",
              "salt_g", "saturated_fat_g", "sugars_g">>

\* tuple(sorted((k, v) for k, v in nutrition_data.items())): keys are distinct,
\* so the pairs are ordered by key alone.  The dict of line 154 finds a key by
\* hash and ==, under which a number is its value (250 == 250.0, and their
\* hashes are equal): the key of the model holds a number by its value alone.
ItemsOf(nutrition_data, present) ==
  [i \in 1..Len(present) |->
     <<present[i],
       IF IsNum(Val(nutrition_data, present[i]))
         THEN [num |-> Val(nutrition_data, present[i]).num]
       ELSE Val(nutrition_data, present[i])>>]

\* SortedItems without the sort: the items in the order of the record.
ItemsAsSupplied(nutrition_data) == nutrition_data

SortedItems(nutrition_data) ==
  ItemsOf(nutrition_data, SelectSeq(KeyOrder, LAMBDA k : Has(nutrition_data, k)))

\* _cache_key without contains_sweeteners.
CacheKeyWithoutSweeteners(nutrition_data, is_beverage, is_cheese, contains_sweeteners) ==
  <<SortedItems(nutrition_data), is_beverage, is_cheese>>

_cache_key(nutrition_data, is_beverage, is_cheese, contains_sweeteners) ==
  <<SortedItems(nutrition_data), is_beverage, is_cheese, contains_sweeteners>>

---------------------------------------------------------------------------
(* calculate_score: the component loops *)

NegativePairs == << <<"energy_calories", "energy_kcal">>,
                    <<"sugars", "sugars_g">>,
                    <<"saturated_fatty_acids", "saturated_fat_g">>,
                    <<"salt_sodium", "salt_g">> >>

PositivePairs == << <<"fiber", "fiber_g">>,
                    <<"protein", "protein_g">> >>

SweetenerPenalty == 2

CheesePoints == 7

\* The running state of one computation: the two counters, the log, and
\* whether an exception has left calculate_score.
NewRun == [raised |-> FALSE, negative_points |-> 0, positive_points |-> 0,
           calculation_log |-> <<>>]

\* points += got; calculation_log.append({...}) for a resolved component.
Scored(run, component, value, got, is_negative) ==
  IF got.raised THEN [run EXCEPT !.raised = TRUE]
  ELSE [run EXCEPT
          !.negative_points = IF is_negative THEN @ + got.points ELSE @,
          !.positive_points = IF is_negative THEN @ ELSE @ + got.points,
          !.calculation_log = Append(@, [component |-> component, value |-> value,
                                         points |-> got.points, is_negative |-> is_negative])]

\* NegativeStep with nutrition_data.get(key, 0) in place of the test of the
\* key: an absent nutrient is scored as 0.
NegativeStepDefaultZero(crit, nutrition_data, run, pair) ==
  IF run.raised THEN run
  ELSE Scored(run, pair[1],
              IF Has(nutrition_data, pair[2]) THEN Val(nutrition_data, pair[2]) ELSE [num |-> 0],
              _get_points_for_component(
                crit, pair[1],
                IF Has(nutrition_data, pair[2]) THEN Val(nutrition_data, pair[2]) ELSE [num |-> 0],
                TRUE),
              TRUE)

\* One iteration of the loop over the negative components.
NegativeStep(crit, nutrition_data, run, pair) ==
  IF run.raised \/ ~Has(nutrition_data, pair[2]) THEN run
  ELSE Scored(run, pair[1], Val(nutrition_data, pair[2]),
              _get_points_for_component(crit, pair[1], Val(nutrition_data, pair[2]), TRUE),
              TRUE)

\* SweetenerStep that appends the entry and leaves negative_points alone.
SweetenerStepLogOnly(run, contains_sweeteners) ==
  IF run.raised \/ ~contains_sweeteners THEN run
  ELSE [run EXCEPT
          !.calculation_log = Append(@, [component |-> "non_nutritive_sweeteners",
                                         value |-> [str |-> "Present"],
                                         points |-> SweetenerPenalty, is_negative |-> TRUE,
                                         note |-> "Additional penalty for artificial sweeteners (2024 update)"])]

SweetenerStep(run, contains_sweeteners) ==
  IF run.raised \/ ~contains_sweeteners THEN run
  ELSE [run EXCEPT
          !.negative_points = @ + SweetenerPenalty,
          !.calculation_log = Append(@, [component |-> "non_nutritive_sweeteners",
                                         value |-> [str |-> "Present"],
                                         points |-> SweetenerPenalty, is_negative |-> TRUE,
                                         note |-> "Additional penalty for artificial sweeteners (2024 update)"])]

\* The cheese branch: the entry is appended, positive_points is not touched.
CheeseProtein(run, component, value) ==
  [run EXCEPT
     !.calculation_log = Append(@, [component |-> component, value |-> value,
                                    points |-> CheesePoints, is_negative |-> FALSE,
                                    note |-> "Special rule: Cheese products receive full protein points"])]

\* One iteration of the loop over fiber and protein.
PositiveStep(crit, nutrition_data, is_cheese, run, pair) ==
  IF run.raised \/ ~Has(nutrition_data, pair[2]) THEN run
  ELSE IF pair[1] = "protein" /\ is_cheese
    THEN CheeseProtein(run, pair[1], Val(nutrition_data, pair[2]))
  ELSE Scored(run, pair[1], Val(nutrition_data, pair[2]),
              _get_points_for_component(crit, pair[1], Val(nutrition_data, pair[2]), FALSE),
              FALSE)

FruitsStep(crit, nutrition_data, run) ==
  IF run.raised \/ ~Has(nutrition_data, "fruits_veg_nuts_percent") THEN run
  ELSE Scored(run, "fruits_vegetables_legumes_nuts",
              Val(nutrition_data, "fruits_veg_nuts_percent"),
              _get_points_for_component(crit, "fruits_vegetables_legumes_nuts",
                                        Val(nutrition_data, "fruits_veg_nuts_percent"), FALSE),
              FALSE)

RECURSIVE NegativeLoop(_, _, _, _)
NegativeLoop(crit, nutrition_data, run, i) ==
  IF i > Len(NegativePairs) THEN run
  ELSE NegativeLoop(crit, nutrition_data,
                    NegativeStep(crit, nutrition_data, run, NegativePairs[i]), i + 1)

RECURSIVE PositiveLoop(_, _, _, _, _)
PositiveLoop(crit, nutrition_data, is_cheese, run, i) ==
  IF i > Len(PositivePairs) THEN run
  ELSE PositiveLoop(crit, nutrition_data, is_cheese,
                    PositiveStep(crit, nutrition_data, is_cheese, run, PositivePairs[i]), i + 1)

\* Components with the sweetener penalty applied after the positive components.
ComponentsSweetenerLast(crit, nutrition_data, is_cheese, contains_sweeteners) ==
  SweetenerStep(
    FruitsStep(crit, nutrition_data,
      PositiveLoop(crit, nutrition_data, is_cheese,
                   NegativeLoop(crit, nutrition_data, NewRun, 1), 1)),
    contains_sweeteners)

\* Lines 158-230: the counters and the log at the point final_score is formed.
Components(crit, nutrition_data, is_cheese, contains_sweeteners) ==
  FruitsStep(crit, nutrition_data,
    PositiveLoop(crit, nutrition_data, is_cheese,
      SweetenerStep(NegativeLoop(crit, nutrition_data, NewRun, 1), contains_sweeteners),
      1))

---------------------------------------------------------------------------
(* calculate_score: grade, normalized score, explanation *)

\* words is s.split(); its first word, or the IndexError (ok = FALSE).
FirstWord(words) == IF words = <<>> THEN [ok |-> FALSE, w |-> <<>>]
                    ELSE [ok |-> TRUE, w |-> words[1]]

\* The texts a band hands to float(), in the order the code converts them.
BandTexts(threshold_str) ==
  IF Contains(threshold_str, "<=") THEN <<FirstWord(Words(Split(threshold_str, "<=")[2]))>>
  ELSE IF Contains(threshold_str, ">=") THEN <<FirstWord(Words(Split(threshold_str, ">=")[2]))>>
  ELSE IF ContainsTo(threshold_str)
    THEN <<[ok |-> TRUE, w |-> SplitTo(threshold_str)[1]],
           FirstWord(Words(SplitTo(threshold_str)[2]))>>
  ELSE <<>>

\* float() of each; ok = FALSE is the IndexError or ValueError, which nothing
\* catches.
BandFloats(texts) ==
  [i \in 1..Len(texts) |-> IF texts[i].ok THEN Float(texts[i].w) ELSE [ok |-> FALSE, v |-> 0]]

\* One band of the grade loop: whether it raises, and whether it matches.
BandTest(threshold_str, bounds, final_score) ==
  IF \E i \in 1..Len(bounds) : ~bounds[i].ok THEN [raised |-> TRUE, match |-> FALSE]
  ELSE [raised |-> FALSE,
        match  |-> IF Contains(threshold_str, "<=") THEN final_score * 100 <= bounds[1].v
                   ELSE IF Contains(threshold_str, ">=") THEN final_score * 100 >= bounds[1].v
                   ELSE IF ContainsTo(threshold_str)
                     THEN bounds[1].v <= final_score * 100 /\ final_score * 100 <= bounds[2].v
                   ELSE FALSE]

Band(threshold_str, final_score) ==
  BandTest(threshold_str, BandFloats(BandTexts(threshold_str)), final_score)

\* for g, threshold_str in thresholds.items(), from item i on
RECURSIVE GradeLoop(_, _, _)
GradeNext(thresholds, final_score, i, b) ==
  IF b.raised THEN [raised |-> TRUE, grade |-> "E"]
  ELSE IF b.match THEN [raised |-> FALSE, grade |-> thresholds[i][1]]
  ELSE GradeLoop(thresholds, final_score, i + 1)

GradeLoop(thresholds, final_score, i) ==
  IF i > Len(thresholds) THEN [raised |-> FALSE, grade |-> "E"]
  ELSE GradeNext(thresholds, final_score, i, Band(thresholds[i][2], final_score))

\* Grade that reads the bands of solid foods whatever is_beverage.
GradeOfSolidFoods(crit, final_score, is_beverage) ==
  GradeLoop(Get(Get(crit, "final_grade_assignment", EmptyDict), "solid_foods", <<>>),
            final_score, 1)

\* final_grade_assignment maps "beverages" and "solid_foods" to the bands in
\* the order of the document.
Grade(crit, final_score, is_beverage) ==
  GradeLoop(Get(Get(crit, "final_grade_assignment", EmptyDict),
                IF is_beverage THEN "beverages" ELSE "solid_foods", <<>>),
            final_score, 1)

score_map == [A |-> 90, B |-> 70, C |-> 50, D |-> 30, E |-> 10]

Normalized(grade) == Get(score_map, grade, 0)

\* InsertByPoints that puts an entry before the entries of equal points.
InsertBeforeEqual(sorted, e) ==
  SelectSeq(sorted, LAMBDA x : x.points > e.points) \o <<e>>
    \o SelectSeq(sorted, LAMBDA x : x.points <= e.points)

\* list.sort(key=points, reverse=True): stable, so equal points keep log order.
InsertByPoints(sorted, e) ==
  SelectSeq(sorted, LAMBDA x : x.points >= e.points) \o <<e>>
    \o SelectSeq(sorted, LAMBDA x : x.points < e.points)

RECURSIVE SortByPoints(_)
SortByPoints(entries) ==
  IF entries = <<>> THEN <<>>
  ELSE InsertByPoints(SortByPoints(SubSeq(entries, 1, Len(entries) - 1)),
                      entries[Len(entries)])

\* entries[:2], each as the line the text shows: the component name
\* (underscores to spaces, title case), the value and the points.
MainLines(entries) ==
  [i \in 1..(IF Len(entries) < 2 THEN Len(entries) ELSE 2) |->
     [component |-> entries[i].component, value |-> entries[i].value,
      points |-> entries[i].points]]

\* The explanation text is assembled from these parts and from nothing else;
\* the model keeps the parts.
_generate_explanation(score, grade, calculation_log, is_beverage) ==
  [product_type   |-> IF is_beverage THEN "beverage" ELSE "food product",
   grade          |-> grade,
   main_negative  |-> MainLines(SortByPoints(SelectSeq(calculation_log,
                                                       LAMBDA c : c.is_negative))),
   main_positive  |-> MainLines(SortByPoints(SelectSeq(calculation_log,
                                                       LAMBDA c : ~c.is_negative))),
   interpretation |-> IF grade \in {"A", "B"} THEN "relatively healthy"
                      ELSE IF grade = "C" THEN "middle range"
                      ELSE "lower health rating"]

\* Result whose normalized_score is read off the raw score.
ResultOfRaw(final_score, grade, calculation_log, is_beverage, is_cheese, contains_sweeteners) ==
  [raw_score           |-> final_score,
   normalized_score    |-> IF final_score <= 0 THEN 90 ELSE IF final_score <= 10 THEN 50 ELSE 10,
   grade               |-> grade,
   calculation_log     |-> calculation_log,
   is_beverage         |-> is_beverage,
   is_cheese           |-> is_cheese,
   contains_sweeteners |-> contains_sweeteners,
   sources             |-> <<"Nutri-Score 2024 Algorithm", "EU Regulation 1169/2011 (INCO)">>,
   explanation         |-> _generate_explanation(final_score, grade, calculation_log,
                                                 is_beverage)]

\* Lines 260-279: the result dictionary.
Result(final_score, grade, calculation_log, is_beverage, is_cheese, contains_sweeteners) ==
  [raw_score           |-> final_score,
   normalized_score    |-> Normalized(grade),
   grade               |-> grade,
   calculation_log     |-> calculation_log,
   is_beverage         |-> is_beverage,
   is_cheese           |-> is_cheese,
   contains_sweeteners |-> contains_sweeteners,
   sources             |-> <<"Nutri-Score 2024 Algorithm", "EU Regulation 1169/2011 (INCO)">>,
   explanation         |-> _generate_explanation(final_score, grade, calculation_log,
                                                 is_beverage)]

Graded(g, final_score, run, is_beverage, is_cheese, contains_sweeteners) ==
  IF g.raised THEN [raised |-> TRUE]
  ELSE [raised |-> FALSE,
        result |-> Result(final_score, g.grade, run.calculation_log,
                          is_beverage, is_cheese, contains_sweeteners)]

\* Lines 232-279, from the counters and the log.
Finish(crit, run, is_beverage, is_cheese, contains_sweeteners) ==
  IF run.raised THEN [raised |-> TRUE]
  ELSE Graded(Grade(crit, run.negative_points - run.positive_points, is_beverage),
              run.negative_points - run.positive_points,
              run, is_beverage, is_cheese, contains_sweeteners)

\* Lines 158-279: the result a cache miss builds, or raised.
Compute(crit, nutrition_data, is_beverage, is_cheese, contains_sweeteners) ==
  Finish(crit, Components(crit, nutrition_data, is_cheese, contains_sweeteners),
         is_beverage, is_cheese, contains_sweeteners)

---------------------------------------------------------------------------
(* calculate_score: the cache *)

CacheLimit == 128

\* InCache that finds no key.
NeverInCache(c, cache_key) == FALSE

InCache(c, cache_key) == \E i \in 1..Len(c) : c[i].key = cache_key

Cached(c, cache_key) == c[CHOOSE i \in 1..Len(c) : c[i].key = cache_key].result

\* self._calculation_cache[cache_key] = result: a new key goes last, a key
\* already there keeps its place.
Store(c, cache_key, result) ==
  IF InCache(c, cache_key)
    THEN [i \in 1..Len(c) |-> IF c[i].key = cache_key
                              THEN [key |-> cache_key, result |-> result] ELSE c[i]]
  ELSE Append(c, [key |-> cache_key, result |-> result])

\* Evict that pops nothing.
EvictNever(c) == c

\* Evict that pops the entry inserted last.
EvictNewest(c) == IF Len(c) > CacheLimit THEN SubSeq(c, 1, Len(c) - 1) ELSE c

\* if len(cache) > 128: cache.pop(next(iter(cache)))
Evict(c) == IF Len(c) > CacheLimit THEN Tail(c) ELSE c

\* Miss that has stored an entry for the key before the Result is computed.
MissWithSlotTaken(c, cache_key, computed) ==
  IF computed.raised
    THEN [raised |-> TRUE, hit |-> FALSE,
          cache  |-> Evict(Store(c, cache_key, [grade |-> "E"]))]
  ELSE [raised |-> FALSE, hit |-> FALSE, result |-> computed.result,
        cache  |-> Evict(Store(c, cache_key, computed.result))]

\* Lines 281-293, after a miss: computed is what lines 158-279 gave.
Miss(c, cache_key, computed) ==
  IF computed.raised THEN [raised |-> TRUE, hit |-> FALSE, cache |-> c]
  ELSE [raised |-> FALSE, hit |-> FALSE, result |-> computed.result,
        cache  |-> Evict(Store(c, cache_key, computed.result))]

\* Lines 154-156, then the miss.
Probe(crit, c, cache_key, nutrition_data, is_beverage, is_cheese, contains_sweeteners) ==
  IF InCache(c, cache_key)
    THEN [raised |-> FALSE, hit |-> TRUE, result |-> Cached(c, cache_key), cache |-> c]
  ELSE Miss(c, cache_key,
            Compute(crit, nutrition_data, is_beverage, is_cheese, contains_sweeteners))

\* The whole of calculate_score on cache c: what the caller gets and the
\* cache it leaves.
calculate_score(crit, c, nutrition_data, is_beverage, is_cheese, contains_sweeteners) ==
  Probe(crit, c, _cache_key(nutrition_data, is_beverage, is_cheese, contains_sweeteners),
        nutrition_data, is_beverage, is_cheese, contains_sweeteners)

---------------------------------------------------------------------------
(* __init__ and _load_criteria *)

\* json.load on the file, then data.get('nutri_score_criteria_2024', {}); a
\* file that cannot be opened or decoded gives {} (the exception is logged).
_load_criteria(file) ==
  IF ~file.readable THEN EmptyDict
  ELSE Get(file.data, "nutri_score_criteria_2024", EmptyDict)

---------------------------------------------------------------------------
(* The criteria documents of the model *)

RECURSIVE Digits(_)
Digits(n) == IF n < 10 THEN <<DigitChars[n + 1]>>
             ELSE Digits(n \div 10) \o <<DigitChars[(n % 10) + 1]>>

\* The decimal text of h hundredths: "335", "4.5", "0.95".
NumStr(h) ==
  IF h % 100 = 0 THEN Digits(h \div 100)
  ELSE IF h % 10 = 0 THEN Digits(h \div 100) \o <<".">> \o Digits((h % 100) \div 10)
  ELSE Digits(h \div 100) \o <<".">> \o Digits((h % 100) \div 10) \o Digits(h % 10)

\* Levels 0..n-1 "<= (p+1)*step unit", level n "> n*step unit".
LeChain(step, n, unit) ==
  [p \in 0..n |-> IF p < n THEN <<"<=", " ">> \o NumStr((p + 1) * step) \o unit
                  ELSE <<">", " ">> \o NumStr(n * step) \o unit]

\* Levels 0..n-1 "lo-hi unit" with one decimal, as in the comment of line 119
\* ("1.1-2.0g"): level p runs from p*step + 0.1 (0 for level 0) to (p+1)*step.
\* Level n is "> n*step unit".
RangeChain(step, n, unit) ==
  [p \in 0..n |-> IF p < n
                    THEN NumStr(IF p = 0 THEN 0 ELSE p * step + 10) \o <<"-">>
                         \o NumStr((p + 1) * step) \o unit
                  ELSE <<">", " ">> \o NumStr(n * step) \o unit]

KJ == <<" ", "k", "J">>
G == <<"g">>
Pct == <<"%">>

Bands ==
  [solid_foods |-> << <<"A", <<"<=", " ", "0">> >>,
                      <<"B", <<"1", " ", "t", "o", " ", "2">> >>,
                      <<"C", <<"3", " ", "t", "o", " ", "1", "0">> >>,
                      <<"D", <<"1", "1", " ", "t", "o", " ", "1", "8">> >>,
                      <<"E", <<">=", " ", "1", "9">> >> >>,
   beverages   |-> << <<"B", <<"<=", " ", "2">> >>,
                      <<"C", <<"3", " ", "t", "o", " ", "6">> >>,
                      <<"D", <<"7", " ", "t", "o", " ", "9">> >>,
                      <<"E", <<">=", " ", "1", "0">> >> >>]

\* A complete table in the "<=" form; energy thresholds are in kJ and the
\* energy rule carries a conversion_note.
CriteriaStd ==
  [negative_components |->
     [energy_calories       |-> [thresholds |-> LeChain(33500, 10, KJ), max_points |-> 10,
                                 conversion_note |-> "1 kcal = 4.184 kJ"],
      sugars                |-> [thresholds |-> LeChain(450, 10, G), max_points |-> 10],
      saturated_fatty_acids |-> [thresholds |-> LeChain(100, 10, G), max_points |-> 10],
      salt_sodium           |-> [thresholds |-> LeChain(20, 10, G), max_points |-> 10]],
   positive_components |->
     [fiber   |-> [thresholds |-> LeChain(90, 5, G), max_points |-> 5],
      protein |-> [thresholds |-> LeChain(240, 7, G), max_points |-> 7],
      fruits_vegetables_legumes_nuts |->
         [thresholds |-> (0 :> (<<"<=", " ">> \o NumStr(4000) \o Pct)
                          @@ 1 :> (<<"<=", " ">> \o NumStr(6000) \o Pct)
                          @@ 2 :> (<<"<=", " ">> \o NumStr(8000) \o Pct)
                          @@ 5 :> (<<">", " ">> \o NumStr(8000) \o Pct)),
          max_points |-> 5]],
   final_grade_assignment |-> Bands]

\* A complete table in the range form, no conversion_note, protein capped at 5.
CriteriaRange ==
  [negative_components |->
     [energy_calories       |-> [thresholds |-> RangeChain(8000, 10, <<" ", "k", "c", "a", "l">>),
                                 max_points |-> 10],
      sugars                |-> [thresholds |-> RangeChain(450, 10, G), max_points |-> 10],
      saturated_fatty_acids |-> [thresholds |-> RangeChain(100, 10, G), max_points |-> 10],
      salt_sodium           |-> [thresholds |-> RangeChain(20, 10, G), max_points |-> 10]],
   positive_components |->
     [fiber   |-> [thresholds |-> RangeChain(90, 5, G), max_points |-> 5],
      protein |-> [thresholds |-> RangeChain(300, 5, G), max_points |-> 5],
      fruits_vegetables_legumes_nuts |->
         [thresholds |-> RangeChain(2000, 4, Pct), max_points |-> 4]],
   final_grade_assignment |-> Bands]

\* A table that loads but is incomplete: no positive_components section, no
\* salt rule, a rule with neither thresholds nor max_points, and threshold
\* expressions without a number.
CriteriaPartial ==
  [negative_components |->
     [energy_calories       |-> [thresholds |-> LeChain(33500, 10, KJ), max_points |-> 10,
                                 conversion_note |-> "1 kcal = 4.184 kJ"],
      sugars                |-> [thresholds |-> (0 :> <<"l", "o", "w">>
                                                 @@ 1 :> <<"<=", " ", "m", "e", "d", "i", "u", "m">>
                                                 @@ 2 :> (<<">", " ">> \o NumStr(1350) \o G)),
                                 max_points |-> 3],
      saturated_fatty_acids |-> [description |-> "Saturated fatty acids"]],
   final_grade_assignment |-> Bands]

Docs ==
  { [readable |-> TRUE,  data |-> [nutri_score_criteria_2024 |-> CriteriaStd]],
    [readable |-> TRUE,  data |-> [nutri_score_criteria_2024 |-> CriteriaRange]],
    [readable |-> TRUE,  data |-> [nutri_score_criteria_2024 |-> CriteriaPartial]],
    [readable |-> TRUE,  data |-> [version |-> "2024"]],
    [readable |-> FALSE, data |-> EmptyDict] }

---------------------------------------------------------------------------
(* The callers' inputs *)

\* A number, in hundredths.  A value with the field float is the float of an
\* integral number (250.0), which str() writes otherwise than the int (250).
Num(n) == [num |-> n]

\* The complete record of the end-to-end example: energy 250 kcal, sugars 15 g,
\* saturated fat 5 g, salt 1.2 g, fiber 2 g, protein 10 g, fruit 20 %.
Full == << <<"energy_kcal", Num(25000)>>, <<"sugars_g", Num(1500)>>,
           <<"saturated_fat_g", Num(500)>>, <<"salt_g", Num(120)>>,
           <<"fiber_g", Num(200)>>, <<"protein_g", Num(1000)>>,
           <<"fruits_veg_nuts_percent", Num(2000)>> >>

NutrientKeys == {Full[i][1] : i \in 1..Len(Full)}

Without(nutrition_data, key) == SelectSeq(nutrition_data, LAMBDA kv : kv[1] # key)

With(nutrition_data, key, n) ==
  [i \in 1..Len(nutrition_data) |->
     IF nutrition_data[i][1] = key THEN <<key, Num(n)>> ELSE nutrition_data[i]]

Reversed(nutrition_data) ==
  [i \in 1..Len(nutrition_data) |-> nutrition_data[Len(nutrition_data) + 1 - i]]

\* Other values of a nutrient: on both sides of the 1000 limit of the energy
\* heuristic, between two levels of a one-decimal range table and on the next
\* level.
OtherValues ==
  [energy_kcal |-> {99900, 100000},
   sugars_g    |-> {455},
   fiber_g     |-> {95, 100}]

RemovedKeys == {"energy_kcal", "salt_g", "fiber_g", "fruits_veg_nuts_percent"}

Records ==
  {<<>>, Full, Reversed(Full)}
    \cup {Without(Full, k) : k \in RemovedKeys}
    \cup UNION {{With(Full, k, n) : n \in OtherValues[k]} : k \in DOMAIN OtherValues}

Args(nutrition_data, is_beverage, is_cheese, contains_sweeteners) ==
  [nutrition_data |-> nutrition_data, is_beverage |-> is_beverage,
   is_cheese |-> is_cheese, contains_sweeteners |-> contains_sweeteners]

Inputs ==
  {Args(nd, FALSE, FALSE, FALSE) : nd \in Records}
    \cup {Args(nd, FALSE, TRUE, FALSE) :
            nd \in {Full, Without(Full, "protein_g"), With(Full, "protein_g", 0),
                    With(Full, "protein_g", 10000), << <<"protein_g", Num(1000)>> >>}}
    \cup {Args(nd, FALSE, FALSE, TRUE) : nd \in {Full, <<>>, Without(Full, "salt_g")}}
    \cup {Args(Full, TRUE, FALSE, FALSE),
          Args([i \in 1..Len(Full) |->
                  IF Full[i][1] = "energy_kcal"
                    THEN <<"energy_kcal", [num |-> 25000, float |-> TRUE]>>
                  ELSE Full[i]],
               FALSE, FALSE, FALSE)}

---------------------------------------------------------------------------
(* The state machine *)

MaxCalls == 2

Init ==
  /\ doc \in Docs
  /\ criteria = _load_criteria(doc)
  /\ cache = <<>>
  /\ history = <<>>
  /\ frames = <<>>

\* What the caller of calculate_score observes: its arguments, whether the
\* call raised, and otherwise the Result (hit tells which path returned it).
Observed(args, out) ==
  IF out.raised THEN [args |-> args, raised |-> TRUE]
  ELSE [args |-> args, raised |-> FALSE, hit |-> out.hit, result |-> out.result]

Call(args, limit) ==
  /\ Len(history) < limit
  /\ \E out \in {calculate_score(criteria, cache, args.nutrition_data, args.is_beverage,
                                 args.is_cheese, args.contains_sweeteners)} :
        /\ cache' = out.cache
        /\ history' = Append(history, Observed(args, out))
  /\ UNCHANGED <<doc, criteria, frames>>

Next == \E args \in Inputs : Call(args, MaxCalls)

Spec == Init /\ [][Next]_vars

---------------------------------------------------------------------------
(* A calculator that has served many calls: the cache near its limit *)

WarmFill == 126

MaxWarmCalls == 5

\* The call whose entry is the oldest in the warm cache, the same record with
\* the sweetener flag, and two more.
WarmFirst == Args(Full, FALSE, FALSE, FALSE)

WarmInputs ==
  {WarmFirst, Args(Reversed(Full), FALSE, FALSE, FALSE), Args(Full, FALSE, FALSE, TRUE),
   Args(Without(Full, "salt_g"), FALSE, FALSE, FALSE), Args(<<>>, FALSE, FALSE, FALSE)}

\* WarmFirst, then WarmFill calls with records of their own (energy alone,
\* 1 kcal, 2 kcal, ...).
WarmCalls ==
  <<WarmFirst>> \o [i \in 1..WarmFill |->
                      Args(<< <<"energy_kcal", Num(i * 100)>> >>, FALSE, FALSE, FALSE)]

\* The cache after calls[lo..hi], made in order on cache c, which never holds
\* more than CacheLimit entries between calls (the run is halved, and c is
\* looked at first, so that the evaluation does not nest as deep as the run
\* is long).
RECURSIVE Warmed(_, _, _, _, _)
Warmed(crit, c, calls, lo, hi) ==
  IF lo > hi \/ Len(c) > CacheLimit THEN c
  ELSE IF lo = hi
    THEN calculate_score(crit, c, calls[lo].nutrition_data, calls[lo].is_beverage,
                         calls[lo].is_cheese, calls[lo].contains_sweeteners).cache
  ELSE Warmed(crit, Warmed(crit, c, calls, lo, (lo + hi) \div 2),
              calls, ((lo + hi) \div 2) + 1, hi)

\* The state after WarmCalls; history keeps the first of them.
InitWarm ==
  /\ doc \in Docs
  /\ criteria = _load_criteria(doc)
  /\ cache = Warmed(criteria, <<>>, WarmCalls, 1, Len(WarmCalls))
  /\ history = <<Observed(WarmFirst,
                          calculate_score(criteria, <<>>, WarmFirst.nutrition_data,
                                          WarmFirst.is_beverage, WarmFirst.is_cheese,
                                          WarmFirst.contains_sweeteners))>>
  /\ frames = <<>>

NextWarm == \E args \in WarmInputs : Call(args, MaxWarmCalls)

SpecWarm == InitWarm /\ [][NextWarm]_vars

---------------------------------------------------------------------------
(* A calculator shared by threads: calculate_score step by step.  A thread  *)
(* can be switched out between any two operations on the shared dict; each  *)
(* action is one such operation (or the thread-local computation).          *)

ParFill == 127

MaxThreads == 2

Threads == 1..MaxThreads

ParCalls ==
  <<WarmFirst>> \o [i \in 1..ParFill |->
                      Args(<< <<"energy_kcal", Num(i * 100)>> >>, FALSE, FALSE, FALSE)]

\* The calculator after ParCalls, no call in progress.
InitPar ==
  /\ doc \in Docs
  /\ criteria = _load_criteria(doc)
  /\ cache = Warmed(criteria, <<>>, ParCalls, 1, Len(ParCalls))
  /\ history = <<>>
  /\ frames = [t \in Threads |-> [pc |-> "idle"]]

\* The frame f with local k set to v.
Put(f, k, v) == (k :> v) @@ f

At(t, pc) == frames[t].pc = pc

Goto(t, f) == frames' = [frames EXCEPT ![t] = f]

\* The call of thread t ends: the caller gets a Result or an exception.
Returns(t, hit, result) ==
  /\ Goto(t, Put(Put(Put(Put(frames[t], "pc", "done"), "raised", FALSE), "hit", hit),
                 "result", result))
  /\ history' = Append(history, [args |-> frames[t].args, raised |-> FALSE, hit |-> hit,
                                 result |-> result])

Raises(t, error) ==
  /\ Goto(t, Put(Put(Put(frames[t], "pc", "done"), "raised", TRUE), "error", error))
  /\ history' = Append(history, [args |-> frames[t].args, raised |-> TRUE])

\* Line 153: cache_key = self._cache_key(...).
Enter(t, args) ==
  /\ At(t, "idle")
  /\ Goto(t, [pc |-> "check", args |-> args,
              key |-> _cache_key(args.nutrition_data, args.is_beverage, args.is_cheese,
                                 args.contains_sweeteners)])
  /\ UNCHANGED <<doc, criteria, cache, history>>

\* Line 154: if cache_key in self._calculation_cache.
Check(t) ==
  /\ At(t, "check")
  /\ Goto(t, Put(frames[t], "pc", IF InCache(cache, frames[t].key) THEN "read" ELSE "compute"))
  /\ UNCHANGED <<doc, criteria, cache, history>>

\* Line 156: return self._calculation_cache[cache_key]; KeyError when the key
\* is gone.
Read(t) ==
  /\ At(t, "read")
  /\ IF InCache(cache, frames[t].key) THEN Returns(t, TRUE, Cached(cache, frames[t].key))
     ELSE Raises(t, "KeyError")
  /\ UNCHANGED <<doc, criteria, cache>>

\* Lines 158-279: the Result is computed in locals.
ComputeLocal(t) ==
  /\ At(t, "compute")
  /\ \E out \in {Compute(criteria, frames[t].args.nutrition_data, frames[t].args.is_beverage,
                         frames[t].args.is_cheese, frames[t].args.contains_sweeteners)} :
       IF out.raised THEN Raises(t, "TypeError")
       ELSE /\ Goto(t, Put(Put(frames[t], "pc", "store"), "result", out.result))
            /\ history' = history
  /\ UNCHANGED <<doc, criteria, cache>>

\* Line 282: self._calculation_cache[cache_key] = result.
StoreResult(t) ==
  /\ At(t, "store")
  /\ cache' = Store(cache, frames[t].key, frames[t].result)
  /\ Goto(t, Put(frames[t], "pc", "len"))
  /\ UNCHANGED <<doc, criteria, history>>

\* Line 285: if len(self._calculation_cache) > 128.
TestLen(t) ==
  /\ At(t, "len")
  /\ Goto(t, Put(frames[t], "pc", IF Len(cache) > CacheLimit THEN "iter" ELSE "return"))
  /\ UNCHANGED <<doc, criteria, cache, history>>

\* Line 288, iter(self._calculation_cache): the iterator notes the size of
\* the dict.
Iter(t) ==
  /\ At(t, "iter")
  /\ Goto(t, Put(Put(frames[t], "pc", "next"), "used", Len(cache)))
  /\ UNCHANGED <<doc, criteria, cache, history>>

\* Line 288, next(...): RuntimeError (dictionary changed size during
\* iteration) when the size is no longer the one noted, which line 289 does
\* not catch; StopIteration on an empty dict, which it does; else the first key.
NextKey(t) ==
  /\ At(t, "next")
  /\ IF Len(cache) # frames[t].used THEN Raises(t, "RuntimeError")
     ELSE /\ Goto(t, IF Len(cache) = 0 THEN Put(frames[t], "pc", "return")
                     ELSE Put(Put(frames[t], "pc", "pop"), "first", cache[1].key))
          /\ history' = history
  /\ UNCHANGED <<doc, criteria, cache>>

\* Line 288, self._calculation_cache.pop(key); KeyError, when the key is gone,
\* is caught at line 289.
Pop(t) ==
  /\ At(t, "pop")
  /\ cache' = SelectSeq(cache, LAMBDA e : e.key # frames[t].first)
  /\ Goto(t, Put(frames[t], "pc", "return"))
  /\ UNCHANGED <<doc, criteria, history>>

\* Line 293: return result.
Return(t) ==
  /\ At(t, "return")
  /\ Returns(t, FALSE, frames[t].result)
  /\ UNCHANGED <<doc, criteria, cache>>

NextPar ==
  \E t \in Threads :
    \/ \E args \in {WarmFirst, Args(Full, FALSE, FALSE, TRUE),
                     Args(Without(Full, "salt_g"), FALSE, FALSE, FALSE)} : Enter(t, args)
    \/ Check(t)
    \/ Read(t)
    \/ ComputeLocal(t)
    \/ StoreResult(t)
    \/ TestLen(t)
    \/ Iter(t)
    \/ NextKey(t)
    \/ Pop(t)
    \/ Return(t)

SpecPar == InitPar /\ [][NextPar]_vars

---------------------------------------------------------------------------
(* Callers that keep the record they passed and the Result they got.        *)
(* frames holds, for each call, the caller's record as the call left it.    *)

\* Frame that writes the converted energy back into the record.
FrameWithEnergyConverted(crit, nutrition_data) ==
  [criteria |-> crit,
   nutrition_data |->
     [i \in 1..Len(nutrition_data) |->
        IF /\ nutrition_data[i][1] = "energy_kcal"
           /\ IsNum(nutrition_data[i][2])
           /\ nutrition_data[i][2].num < KcalLimit * 100
          THEN <<"energy_kcal", [num |-> (nutrition_data[i][2].num * 523) \div 125]>>
        ELSE nutrition_data[i]]]

\* What a call leaves of the two objects it is given and does not own.  The
\* table and the record are only read: .get at lines 90-97 and 236-237,
\* .items() at 134, `in` and [] at 169-222; the conversion of line 104 assigns
\* the local value.
Frame(crit, nutrition_data) == [criteria |-> crit, nutrition_data |-> nutrition_data]

CallOwn(args) ==
  /\ Len(history) < MaxCalls
  /\ \E out \in {calculate_score(criteria, cache, args.nutrition_data, args.is_beverage,
                                 args.is_cheese, args.contains_sweeteners)},
        left \in {Frame(criteria, args.nutrition_data)} :
        /\ cache' = out.cache
        /\ history' = Append(history, Observed(args, out))
        /\ criteria' = left.criteria
        /\ frames' = Append(frames, left.nutrition_data)
  /\ UNCHANGED doc

\* The caller of call i changes the grade in the Result it got.  The dict
\* returned at line 156 or 293 is the one stored at line 282: with fewer calls
\* than CacheLimit no entry is evicted, so the cache and every caller served
\* under the key hold this one dict.
Tamper(i) ==
  /\ ~history[i].raised
  /\ \E key \in {_cache_key(history[i].args.nutrition_data, history[i].args.is_beverage,
                            history[i].args.is_cheese, history[i].args.contains_sweeteners)},
        changed \in {[history[i].result EXCEPT
                        !.grade = IF @ = "A" THEN "E" ELSE "A"]} :
        /\ history' =
             [j \in 1..Len(history) |->
                IF /\ ~history[j].raised
                   /\ _cache_key(history[j].args.nutrition_data, history[j].args.is_beverage,
                                 history[j].args.is_cheese,
                                 history[j].args.contains_sweeteners) = key
                  THEN [history[j] EXCEPT !.result = changed]
                ELSE history[j]]
        /\ cache' = [k \in 1..Len(cache) |->
                       IF cache[k].key = key THEN [cache[k] EXCEPT !.result = changed]
                       ELSE cache[k]]
  /\ UNCHANGED <<doc, criteria, frames>>

NextOwn ==
  \/ \E args \in {WarmFirst, Args(Reversed(Full), FALSE, FALSE, FALSE),
                   Args(Full, FALSE, FALSE, TRUE),
                   Args(Without(Full, "salt_g"), FALSE, FALSE, FALSE)} : CallOwn(args)
  \/ \E i \in 1..Len(history) : Tamper(i)

SpecOwn == Init /\ [][NextOwn]_vars

---------------------------------------------------------------------------
(* Criteria documents written from numbers: each threshold and each grade   *)
(* band is the text of a bound that is known as numbers.                    *)

SignedStr(n) == IF n < 0 THEN <<"-">> \o Digits(-n) ELSE Digits(n)

\* A bound on a value: at most x ("le"), more than x ("gt"), x to y ("range").
Bound(kind, x, y) == [kind |-> kind, x |-> x, y |-> y]

\* "<= X unit", "> X unit", "X-Y unit"; x and y are in hundredths.
BoundText(b, space, unit) ==
  CASE b.kind = "le"    -> <<"<=">> \o space \o NumStr(b.x) \o unit
    [] b.kind = "gt"    -> <<">">> \o space \o NumStr(b.x) \o unit
    [] b.kind = "range" -> NumStr(b.x) \o <<"-">> \o NumStr(b.y) \o unit

\* A grade band on the raw score: at most a ("le"), at least a ("ge"), a to b
\* ("to"); "high" is a band whose bound is not a number.
BandOf(grade, kind, a, b) == [grade |-> grade, kind |-> kind, a |-> a, b |-> b]

BandText(b) ==
  CASE b.kind = "le" -> <<"<=", " ">> \o SignedStr(b.a)
    [] b.kind = "ge" -> <<">=", " ">> \o SignedStr(b.a)
    [] b.kind = "to" -> SignedStr(b.a) \o <<" ", "t", "o", " ">> \o SignedStr(b.b)
    [] b.kind = "high" -> <<"<=", " ", "h", "i", "g", "h">>

\* Solid foods: C is behind B and never first for a score it contains; no
\* band contains 2.  Beverages: every score is in D or in B.
FormTable(levels, max_points, space, unit) ==
  [levels |-> levels, max_points |-> max_points, space |-> space, unit |-> unit,
   solid_foods |-> <<BandOf("A", "le", -1, 0), BandOf("B", "to", 0, 1),
                     BandOf("C", "le", 1, 0), BandOf("D", "ge", 3, 0)>>,
   beverages   |-> <<BandOf("D", "ge", 1, 0), BandOf("B", "le", 0, 0)>>]

\* Tables for the scan of the levels: a chain of "<=" bounds of which a value
\* satisfies several; ranges with a gap and levels without a threshold; a
\* descending chain of ">" bounds; thresholds at levels 1 and 3 alone;
\* thresholds above max_points.
ScanTables ==
  { FormTable(0 :> Bound("le", 450, 0) @@ 1 :> Bound("le", 900, 0) @@ 2 :> Bound("gt", 900, 0),
              2, <<" ">>, G),
    FormTable(0 :> Bound("range", 0, 90) @@ 1 :> Bound("range", 100, 180), 3, <<>>, G),
    FormTable(0 :> Bound("gt", 900, 0) @@ 1 :> Bound("gt", 450, 0) @@ 2 :> Bound("le", 450, 0),
              2, <<" ">>, G),
    FormTable(1 :> Bound("le", 450, 0) @@ 3 :> Bound("le", 900, 0), 4, <<" ">>, Pct),
    FormTable(0 :> Bound("le", 90, 0) @@ 1 :> Bound("le", 180, 0) @@ 2 :> Bound("le", 450, 0),
              1, <<" ">>, G) }

\* Tables of one threshold, at level 0 of a rule with max_points 1: each form,
\* with and without a space before the number, with the units g, %, kJ and
\* g/100g, the last one after a space and without.
SingleForms ==
  { FormTable(0 :> Bound(kind, 450, 900), 1, su[1], su[2]) :
      kind \in {"le", "gt", "range"},
      su \in { << <<" ">>, G >>, << <<>>, Pct >>, << <<" ">>, KJ >>,
               << <<" ">>, <<" ", "g", "/", "1", "0", "0", "g">> >>,
               << <<>>, <<"g", "/", "1", "0", "0", "g">> >> } }

\* The first of the tables of the scan with, for solid foods, a band whose
\* bound is not a number behind a band that contains the negative scores.
FormTables ==
  ScanTables \cup SingleForms
    \cup {[FormTable(0 :> Bound("le", 450, 0) @@ 1 :> Bound("le", 900, 0)
                       @@ 2 :> Bound("gt", 900, 0), 2, <<" ">>, G)
            EXCEPT !.solid_foods = <<BandOf("A", "le", -1, 0), BandOf("B", "high", 0, 0),
                                     BandOf("D", "ge", 3, 0)>>]}

\* The document of a table: the rule is that of sugars (negative) and of fiber
\* (positive).
DocOf(f) ==
  LET RuleText ==
        [thresholds |-> [p \in DOMAIN f.levels |->
                           BoundText(f.levels[p], f.space, f.unit)],
         max_points |-> f.max_points]
      BandsText(bands) == [i \in 1..Len(bands) |-> <<bands[i].grade, BandText(bands[i])>>]
  IN
  [readable |-> TRUE,
   data |-> [nutri_score_criteria_2024 |->
               [negative_components    |-> [sugars |-> RuleText],
                positive_components    |-> [fiber |-> RuleText],
                final_grade_assignment |-> [solid_foods |-> BandsText(f.solid_foods),
                                            beverages   |-> BandsText(f.beverages)]]]]

MaxFormCalls == 2

\* The values are on and beside the bounds of the tables.
FormInputs ==
  {Args(<< <<"sugars_g", Num(v)>> >>, FALSE, FALSE, FALSE) :
     v \in {0, 449, 450, 451, 900, 901, 90, 95, 181}}
    \cup {Args(<< <<"fiber_g", Num(v)>> >>, FALSE, FALSE, FALSE) : v \in {95, 450, 901}}
    \cup {Args(<< <<"sugars_g", Num(v)>> >>, TRUE, FALSE, FALSE) : v \in {450, 901}}
    \cup {Args(<< <<"fiber_g", Num(450)>> >>, TRUE, FALSE, FALSE),
          Args(<< <<"sugars_g", [str |-> "4.5 g"]>> >>, FALSE, FALSE, FALSE),
          Args(<< <<"sugars_g", Num(901)>> >>, FALSE, FALSE, TRUE),
          Args(<< <<"sugars_g", Num(901)>>, <<"fiber_g", Num(450)>> >>, FALSE, FALSE, FALSE)}

InitForms ==
  /\ doc \in {DocOf(f) : f \in FormTables}
  /\ criteria = _load_criteria(doc)
  /\ cache = <<>>
  /\ history = <<>>
  /\ frames = <<>>

NextForms == \E args \in FormInputs : Call(args, MaxFormCalls)

SpecForms == InitForms /\ [][NextForms]_vars

---------------------------------------------------------------------------
(* Vocabulary of the properties *)

Calls == 1..Len(history)

Returned(i) == ~history[i].raised

ArgsOf(i) == history[i].args

RecordOf(i) == history[i].args.nutrition_data

ResultOf(i) == history[i].result

LogOf(i) == history[i].result.calculation_log

SameFlags(a, b) ==
  /\ a.is_beverage = b.is_beverage
  /\ a.is_cheese = b.is_cheese
  /\ a.contains_sweeteners = b.contains_sweeteners

KeysOf(nutrition_data) == {nutrition_data[i][1] : i \in 1..Len(nutrition_data)}

\* The two records hold the same nutrients with the same values, but for k.
DiffersOnlyAt(a, b, k) ==
  /\ KeysOf(a) = KeysOf(b)
  /\ k \in KeysOf(a)
  /\ \A q \in KeysOf(a) \ {k} : Val(a, q) = Val(b, q)

NegativeKeys == {NegativePairs[i][2] : i \in 1..Len(NegativePairs)}

PositiveKeys == {PositivePairs[i][2] : i \in 1..Len(PositivePairs)} \cup {"fruits_veg_nuts_percent"}

\* The component a nutrient key is scored as.
ComponentOf(key) ==
  IF key = "fruits_veg_nuts_percent" THEN "fruits_vegetables_legumes_nuts"
  ELSE IF key \in NegativeKeys
    THEN NegativePairs[CHOOSE i \in 1..Len(NegativePairs) : NegativePairs[i][2] = key][1]
  ELSE PositivePairs[CHOOSE i \in 1..Len(PositivePairs) : PositivePairs[i][2] = key][1]

RECURSIVE SumPoints(_)
SumPoints(entries) ==
  IF entries = <<>> THEN 0 ELSE entries[1].points + SumPoints(Tail(entries))

NegativeSum(log) == SumPoints(SelectSeq(log, LAMBDA e : e.is_negative))

PositiveSum(log) == SumPoints(SelectSeq(log, LAMBDA e : ~e.is_negative))

PointsOf(log, component) == SumPoints(SelectSeq(log, LAMBDA e : e.component = component))

\* The rule of a component in the loaded table ({} when it has none).
RuleOf(component, is_negative) ==
  Get(Get(criteria, IF is_negative THEN "negative_components" ELSE "positive_components",
          EmptyDict),
      component, EmptyDict)

\* An entry whose points came from threshold resolution.
Resolved(i, e) ==
  /\ e.component # "non_nutritive_sweeteners"
  /\ ~(e.component = "protein" /\ ArgsOf(i).is_cheese)

---------------------------------------------------------------------------
(* C1: with is_cheese and protein present, the maximum protein points are   *)
(* part of positive_total: raw_score = negative_total - (fiber points +     *)
(* max_points of the protein rule + fruit points).                          *)
C1_CheeseProteinAccumulated ==
  \A i \in Calls :
    (Returned(i) /\ ArgsOf(i).is_cheese /\ Has(RecordOf(i), "protein_g"))
      => ResultOf(i).raw_score =
           NegativeSum(LogOf(i))
             - (PointsOf(LogOf(i), "fiber")
                + Get(RuleOf("protein", FALSE), "max_points", 0)
                + PointsOf(LogOf(i), "fruits_vegetables_legumes_nuts"))

(* C2: with is_cheese, the protein entry of the log has the max_points of   *)
(* the protein rule of the loaded table, whatever the protein value and the *)
(* table, and carries the special-rule note.                                *)
C2_CheeseProteinIsRuleMax ==
  \A i \in Calls :
    (/\ Returned(i) /\ ArgsOf(i).is_cheese /\ Has(RecordOf(i), "protein_g")
     /\ "max_points" \in DOMAIN RuleOf("protein", FALSE))
      => \E k \in 1..Len(LogOf(i)) :
           /\ LogOf(i)[k].component = "protein"
           /\ "note" \in DOMAIN LogOf(i)[k]
           /\ LogOf(i)[k].points = RuleOf("protein", FALSE).max_points

(* C3: raising one negative nutrient (energy, sugars, saturated fat, salt), *)
(* all else fixed, never lowers raw_score, energy across 1000 included.     *)
C3_NegativeMonotone ==
  \A i \in Calls, j \in Calls : \A k \in NegativeKeys :
    (/\ Returned(i) /\ Returned(j)
     /\ SameFlags(ArgsOf(i), ArgsOf(j))
     /\ DiffersOnlyAt(RecordOf(i), RecordOf(j), k)
     /\ Val(RecordOf(i), k).num < Val(RecordOf(j), k).num)
      => ResultOf(i).raw_score <= ResultOf(j).raw_score

(* C4: raising one positive nutrient (fiber, protein, fruit percentage),    *)
(* all else fixed, never raises raw_score.                                  *)
C4_PositiveMonotone ==
  \A i \in Calls, j \in Calls : \A k \in PositiveKeys :
    (/\ Returned(i) /\ Returned(j)
     /\ SameFlags(ArgsOf(i), ArgsOf(j))
     /\ DiffersOnlyAt(RecordOf(i), RecordOf(j), k)
     /\ Val(RecordOf(i), k).num < Val(RecordOf(j), k).num)
      => ResultOf(i).raw_score >= ResultOf(j).raw_score

\* Level p of the rule has a threshold with a number in it that the value x,
\* on the comparison scale, satisfies.
Met(rule, p, x) ==
  /\ p \in DOMAIN Get(rule, "thresholds", EmptyDict)
  /\ \E parsed \in {_parse_threshold(rule.thresholds[p])} :
       parsed.kind # "none" /\ Satisfied(rule.thresholds[p], parsed, x)

(* The points a rule gives a value x: the lowest level of 0..max_points     *)
(* that x satisfies, max_points when it satisfies none, 0 when the          *)
(* component has no rule.                                                   *)
PointsAre(rule, x, points) ==
  IF DOMAIN rule = {} THEN points = 0
  ELSE /\ points \in 0..Get(rule, "max_points", 0)
       /\ \A q \in 0..(points - 1) : ~Met(rule, q, x)
       /\ Met(rule, points, x) \/ points = Get(rule, "max_points", 0)

\* The energy value is taken as kcal and multiplied by 4.184.
TakenAsKcal(e) ==
  /\ e.component = "energy_calories"
  /\ "conversion_note" \in DOMAIN RuleOf(e.component, e.is_negative)
  /\ e.value.num < KcalLimit * 100

\* The points of the entry are those of its value as supplied.
AsSupplied(e) ==
  PointsAre(RuleOf(e.component, e.is_negative), Scaled(e.value.num, FALSE), e.points)

\* The points of the entry are those of its value, an energy taken as kcal
\* being converted and every other value being as supplied.
AsConverted(e) ==
  PointsAre(RuleOf(e.component, e.is_negative), Scaled(e.value.num, TakenAsKcal(e)),
            e.points)

(* C5: the engine converts no unit: every component's points, energy        *)
(* included, are those of the value as supplied.                            *)
C5_NoUnitConversion ==
  \A i \in Calls : Returned(i) =>
    \A k \in 1..Len(LogOf(i)) : Resolved(i, LogOf(i)[k]) => AsSupplied(LogOf(i)[k])

(* C5, as the code has it: energy alone is converted, and only when its     *)
(* rule carries a conversion_note and the value is below 1000: it is then   *)
(* multiplied by 4.184 before the thresholds are read.  Every other value,  *)
(* and energy from 1000 on or under a rule without the note, is compared as *)
(* supplied.                                                                *)
C5_OnlyEnergyConverted ==
  \A i \in Calls : Returned(i) =>
    \A k \in 1..Len(LogOf(i)) : Resolved(i, LogOf(i)[k]) => AsConverted(LogOf(i)[k])

\* Some call scored an energy value whose conversion changed its points,
\* beside a nutrient with points of its own, and another scored an energy
\* value of 1000.
C5_Witness ==
  /\ \E i \in Calls : Returned(i) /\ \E k \in 1..Len(LogOf(i)) :
       /\ TakenAsKcal(LogOf(i)[k])
       /\ ~AsSupplied(LogOf(i)[k])
       /\ \E m \in 1..Len(LogOf(i)) : LogOf(i)[m].component = "sugars" /\ LogOf(i)[m].points > 0
  /\ \E i \in Calls : Returned(i) /\ \E k \in 1..Len(LogOf(i)) :
       /\ LogOf(i)[k].component = "energy_calories"
       /\ LogOf(i)[k].value.num >= KcalLimit * 100

\* The same nutrients with the same values, in whatever order of insertion.
SameRecord(a, b) ==
  /\ KeysOf(a) = KeysOf(b)
  /\ \A q \in KeysOf(a) : Val(a, q) = Val(b, q)

Unscorable(rule) ==
  \/ DOMAIN rule = {}
  \/ \E p \in DOMAIN Get(rule, "thresholds", EmptyDict) :
       _parse_threshold(rule.thresholds[p]).kind = "none"

(* C7: a component without a rule, or with thresholds that cannot be        *)
(* parsed, is skipped and the Result shows it: its nutrient has no entry in *)
(* the log, or an entry marked as unscored, never a plain entry with points *)
(* that reads as a score.                                                   *)
C7_OmissionSurfaced ==
  \A i \in Calls : Returned(i) =>
    \A k \in 1..Len(LogOf(i)) :
      (/\ Resolved(i, LogOf(i)[k])
       /\ Unscorable(RuleOf(LogOf(i)[k].component, LogOf(i)[k].is_negative)))
        => DOMAIN LogOf(i)[k] # {"component", "value", "points", "is_negative"}

TableOf(file) == Get(file.data, "nutri_score_criteria_2024", EmptyDict)

BareComponent(table) ==
  \E s \in {"negative_components", "positive_components"} \cap DOMAIN table :
    \E c \in DOMAIN table[s] :
      "thresholds" \notin DOMAIN table[s][c] /\ "max_points" \notin DOMAIN table[s][c]

Invalid(file) ==
  \/ ~file.readable
  \/ ~({"negative_components", "positive_components", "final_grade_assignment"}
          \subseteq DOMAIN TableOf(file))
  \/ BareComponent(TableOf(file))

(* C8: a table that cannot be read, lacks a section, or has a component     *)
(* with neither thresholds nor max_points makes loading fail: no calculator *)
(* scores with an empty or partial table.                                   *)
C8_InvalidTableRejected ==
  Invalid(doc) => \A i \in Calls : ~Returned(i)

SweetenerEntry(e) ==
  /\ e.component = "non_nutritive_sweeteners"
  /\ e.is_negative
  /\ "note" \in DOMAIN e

\* Call j has the inputs of call i, but for contains_sweeteners, false in i
\* and true in j.
SweetenerToggled(i, j) ==
  /\ Returned(i) /\ Returned(j)
  /\ RecordOf(i) = RecordOf(j)
  /\ ArgsOf(i).is_beverage = ArgsOf(j).is_beverage
  /\ ArgsOf(i).is_cheese = ArgsOf(j).is_cheese
  /\ ~ArgsOf(i).contains_sweeteners /\ ArgsOf(j).contains_sweeteners

(* C9: turning contains_sweeteners from false to true, all else fixed,      *)
(* raises raw_score by exactly 2 and adds exactly one entry to the log, a   *)
(* negative one with a note.                                                *)
C9_SweetenerAddsTwo ==
  LET \* Entries as == compares them: a number by its value, 250 == 250.0.
      plain(log) == [k \in 1..Len(log) |->
                       IF IsNum(log[k].value)
                         THEN [log[k] EXCEPT !.value = [num |-> @.num]]
                       ELSE log[k]]
  IN
  \A i \in Calls, j \in Calls :
    SweetenerToggled(i, j)
      => /\ ResultOf(j).raw_score = ResultOf(i).raw_score + 2
         /\ \A k \in 1..Len(LogOf(i)) : ~SweetenerEntry(LogOf(i)[k])
         /\ \E k \in 1..Len(LogOf(j)) :
              /\ SweetenerEntry(LogOf(j)[k])
              /\ LogOf(j)[k].points = 2
              /\ plain(SubSeq(LogOf(j), 1, k - 1) \o SubSeq(LogOf(j), k + 1, Len(LogOf(j))))
                   = plain(LogOf(i))

\* A scored record was called without and with sweeteners.
C9_Witness ==
  \E i \in Calls, j \in Calls :
    /\ SweetenerToggled(i, j)
    /\ NegativeSum(LogOf(i)) > 0 /\ PositiveSum(LogOf(i)) > 0

\* The record of call j is the record of call i without the key.
KeyRemoved(i, j, key) ==
  /\ Returned(i) /\ Returned(j)
  /\ SameFlags(ArgsOf(i), ArgsOf(j))
  /\ Has(RecordOf(i), key)
  /\ RecordOf(j) = Without(RecordOf(i), key)

\* What the entries of a component add to raw_score; the protein entry of a
\* cheese is outside the totals.
Contribution(i, component) ==
  SumPoints(SelectSeq(LogOf(i), LAMBDA e : e.component = component /\ Resolved(i, e)
                                             /\ e.is_negative))
    - SumPoints(SelectSeq(LogOf(i), LAMBDA e : e.component = component /\ Resolved(i, e)
                                                 /\ ~e.is_negative))

(* C10: a nutrient that is not in the record is skipped: it has no entry in *)
(* the log and adds nothing to the totals.  Removing one key from a record  *)
(* removes that nutrient's entry and its contribution to raw_score, and     *)
(* leaves the entries and points of the other components as they were.      *)
C10_AbsentNutrientSkipped ==
  LET \* Entries as == compares them: a number by its value, 250 == 250.0.
      plain(log) == [k \in 1..Len(log) |->
                       IF IsNum(log[k].value)
                         THEN [log[k] EXCEPT !.value = [num |-> @.num]]
                       ELSE log[k]]
  IN
  /\ \A i \in Calls : Returned(i) =>
       /\ \A key \in NutrientKeys \ KeysOf(RecordOf(i)) :
            \A k \in 1..Len(LogOf(i)) : LogOf(i)[k].component # ComponentOf(key)
       /\ KeysOf(RecordOf(i)) = {} =>
            ResultOf(i).raw_score = IF ArgsOf(i).contains_sweeteners THEN 2 ELSE 0
  /\ \A i \in Calls, j \in Calls : \A key \in NutrientKeys :
       KeyRemoved(i, j, key)
         => /\ plain(LogOf(j))
                 = plain(SelectSeq(LogOf(i), LAMBDA e : e.component # ComponentOf(key)))
            /\ ResultOf(j).raw_score = ResultOf(i).raw_score - Contribution(i, ComponentOf(key))

\* A record was scored with and without a nutrient that had points.
C10_Witness ==
  \E i \in Calls, j \in Calls : \E key \in NutrientKeys :
    /\ KeyRemoved(i, j, key)
    /\ Contribution(i, ComponentOf(key)) # 0
    /\ Len(LogOf(j)) > 0

(* C20: raw_score is the sum of the points of the negative entries of the   *)
(* log less the sum of the points of its positive entries, for every record *)
(* and every combination of flags.                                          *)
C20_RawScoreIsLogBalance ==
  \A i \in Calls : Returned(i) =>
    ResultOf(i).raw_score = NegativeSum(LogOf(i)) - PositiveSum(LogOf(i))

(* C16: the normalized score is a function of the grade letter alone: A 90, *)
(* B 70, C 50, D 30, E 10.  Every Result has one of these five scores, and  *)
(* two Results of one grade have one score whatever their raw scores.       *)
C16_NormalizedByGradeAlone ==
  /\ \A i \in Calls : Returned(i) =>
       /\ <<ResultOf(i).grade, ResultOf(i).normalized_score>>
            \in {<<"A", 90>>, <<"B", 70>>, <<"C", 50>>, <<"D", 30>>, <<"E", 10>>}
  /\ \A i \in Calls, j \in Calls :
       (Returned(i) /\ Returned(j) /\ ResultOf(i).grade = ResultOf(j).grade)
         => ResultOf(i).normalized_score = ResultOf(j).normalized_score

\* Two Results of one grade and different raw scores, the grade not being the
\* default one.
C16_Witness ==
  \E i \in Calls, j \in Calls :
    /\ Returned(i) /\ Returned(j)
    /\ ResultOf(i).grade = ResultOf(j).grade
    /\ ResultOf(i).grade # "E"
    /\ ResultOf(i).raw_score # ResultOf(j).raw_score

---------------------------------------------------------------------------
(* The cache, call by call *)

KeyOf(args) ==
  _cache_key(args.nutrition_data, args.is_beverage, args.is_cheese, args.contains_sweeteners)

\* The step is a call: it adds one entry to history.
CallMade == Len(history') = Len(history) + 1

\* The call made by the step, as the caller saw it.
Made == history'[Len(history')]

(* C11: a call with the record and flags of the call before it returns a    *)
(* Result of equal content without computing it again: it is served from    *)
(* the cache, resolves no component and inserts nothing in the cache.       *)
C11_RepeatServedFromCache ==
  [][(/\ CallMade
      /\ Len(history) >= 1
      /\ Returned(Len(history))
      /\ SameRecord(RecordOf(Len(history)), Made.args.nutrition_data)
      /\ SameFlags(ArgsOf(Len(history)), Made.args))
       => /\ ~Made.raised
          /\ Made.hit
          /\ Made.result = ResultOf(Len(history))
          /\ cache' = cache]_vars

\* A call was computed at a full cache, its insertion evicting the oldest
\* entry, and the next call repeated it.
C11_Witness ==
  /\ ~InCache(cache, KeyOf(WarmFirst))
  /\ \E i \in Calls :
       /\ i >= 2 /\ i + 1 \in Calls
       /\ ArgsOf(i) = ArgsOf(i + 1)
       /\ Returned(i) /\ ~history[i].hit
       /\ Returned(i + 1) /\ history[i + 1].hit
       /\ Len(LogOf(i)) > 0

(* C12: between calls the cache holds at most 128 entries, one per key.     *)
C12_CacheBounded ==
  /\ Len(cache) <= CacheLimit
  /\ \A i \in 1..Len(cache), j \in 1..Len(cache) : cache[i].key = cache[j].key => i = j

\* The cache is full after an insertion that evicted an entry.
C12_Witness ==
  /\ Len(cache) = CacheLimit
  /\ ~InCache(cache, KeyOf(WarmFirst))
  /\ \E i \in Calls : i >= 2 /\ Returned(i) /\ ~history[i].hit
                      /\ InCache(cache, KeyOf(ArgsOf(i)))

(* C13: eviction is first in, first out.  A call served from the cache      *)
(* leaves the cache and its order as they were.  A call that computes its   *)
(* Result inserts it last; when that makes the cache exceed 128 entries,    *)
(* exactly one entry goes, the one inserted earliest, and every other entry *)
(* keeps its order; the entry just inserted stays.                          *)
C13_EvictionFifo ==
  [][CallMade =>
       IF Made.raised THEN cache' = cache
       ELSE IF Made.hit THEN cache' = cache
       ELSE /\ Len(cache') >= 1
            /\ cache'[Len(cache')] = [key |-> KeyOf(Made.args), result |-> Made.result]
            /\ IF Len(cache) + 1 > CacheLimit
                 THEN /\ Len(cache') = Len(cache)
                      /\ \A i \in 2..Len(cache) : cache'[i - 1] = cache[i]
               ELSE /\ Len(cache') = Len(cache) + 1
                    /\ \A i \in 1..Len(cache) : cache'[i] = cache[i]]_vars

\* The oldest entry was served from the cache and then evicted all the same,
\* by the insertions of later calls.
C13_Witness ==
  /\ Len(cache) = CacheLimit
  /\ ~InCache(cache, KeyOf(WarmFirst))
  /\ \E j \in Calls : j >= 2 /\ Returned(j) /\ history[j].hit
                      /\ KeyOf(ArgsOf(j)) = KeyOf(WarmFirst)

---------------------------------------------------------------------------
(* Threads *)

(* C14: when two concurrent calls miss on the same key and both compute it, *)
(* both callers get Results of equal content and the cache ends with        *)
(* exactly one entry for the key.                                           *)
C14_RaceConverges ==
  \A t \in Threads, u \in Threads :
    (/\ t # u
     /\ frames[t].pc = "done" /\ frames[u].pc = "done"
     /\ frames[t].key = frames[u].key
     /\ \A w \in {t, u} : /\ "result" \in DOMAIN frames[w]
                          /\ ~("hit" \in DOMAIN frames[w] /\ frames[w].hit))
      => /\ ~frames[t].raised /\ ~frames[u].raised
         /\ frames[t].result = frames[u].result
         /\ Cardinality({i \in 1..Len(cache) : cache[i].key = frames[t].key}) = 1

(* C15: under any interleaving every call returns a Result; none fails      *)
(* because another call evicted its entry between the test of line 154 and  *)
(* the read of line 156.                                                    *)
C15_EveryCallReturns ==
  \A t \in Threads : frames[t].pc = "done" => ~frames[t].raised

---------------------------------------------------------------------------
(* Tables written from numbers: what the numbers say *)

Lowest(levels) == CHOOSE m \in levels : \A n \in levels : m <= n

\* The value v, in hundredths, is within the bound.
Holds(b, v) ==
  CASE b.kind = "le"    -> v <= b.x
    [] b.kind = "gt"    -> v > b.x
    [] b.kind = "range" -> b.x <= v /\ v <= b.y

LevelsHeld(f, v) == {p \in DOMAIN f.levels \cap 0..f.max_points : Holds(f.levels[p], v)}

\* The bands that the raw score is in.
BandsIn(bands, raw_score) ==
  {k \in 1..Len(bands) :
     CASE bands[k].kind = "le" -> raw_score <= bands[k].a
       [] bands[k].kind = "ge" -> raw_score >= bands[k].a
       [] bands[k].kind = "to" -> bands[k].a <= raw_score /\ raw_score <= bands[k].b
       [] OTHER -> FALSE}

(* C17: the grade is taken from the bands that is_beverage selects          *)
(* (beverages when true, solid_foods when false): it is the grade of the    *)
(* first band, in the order of the table, that contains raw_score, and E    *)
(* when no band contains it.                                                *)
C17_GradeIsFirstBand ==
  \A f \in FormTables : doc = DocOf(f) =>
    \A i \in Calls : Returned(i) =>
      LET bands == IF ArgsOf(i).is_beverage THEN f.beverages ELSE f.solid_foods
          found == BandsIn(bands, ResultOf(i).raw_score)
      IN  ResultOf(i).grade = IF found = {} THEN "E" ELSE bands[Lowest(found)].grade

\* A solid food got E because no band contains its score, and a beverage of
\* the same score got the grade of a band.
C17_Witness ==
  \E f \in FormTables : doc = DocOf(f) /\
    \E i \in Calls, j \in Calls :
      /\ Returned(i) /\ Returned(j)
      /\ ~ArgsOf(i).is_beverage /\ ArgsOf(j).is_beverage
      /\ ResultOf(i).raw_score = ResultOf(j).raw_score
      /\ BandsIn(f.solid_foods, ResultOf(i).raw_score) = {}
      /\ ResultOf(i).grade = "E" /\ ResultOf(j).grade = "D"

(* C18: the points of a component are the first level of 0..max_points, in  *)
(* ascending order, whose threshold the value satisfies, and max_points     *)
(* when it satisfies none; for the negative and the positive components     *)
(* alike.                                                                   *)
C18_FirstSatisfiedLevel ==
  \A f \in ScanTables : doc = DocOf(f) =>
    \A i \in Calls : Returned(i) =>
      \A k \in 1..Len(LogOf(i)) :
        LogOf(i)[k].component \in {"sugars", "fiber"}
          => LET held == LevelsHeld(f, LogOf(i)[k].value.num)
             IN  LogOf(i)[k].points = IF held = {} THEN f.max_points ELSE Lowest(held)

\* Sugars (negative) satisfied several levels and got the first, and fiber
\* (positive) satisfied none and got max_points.
C18_Witness ==
  \E f \in ScanTables : doc = DocOf(f) /\
    \E i \in Calls, j \in Calls :
      /\ Returned(i) /\ Returned(j)
      /\ \E k \in 1..Len(LogOf(i)) :
           /\ LogOf(i)[k].component = "sugars"
           /\ Cardinality(LevelsHeld(f, LogOf(i)[k].value.num)) > 1
           /\ LogOf(i)[k].points = Lowest(LevelsHeld(f, LogOf(i)[k].value.num))
      /\ \E k \in 1..Len(LogOf(j)) :
           /\ LogOf(j)[k].component = "fiber"
           /\ LevelsHeld(f, LogOf(j)[k].value.num) = {}
           /\ LogOf(j)[k].points = f.max_points /\ f.max_points > 0

(* C19: a threshold "at most X" is satisfied exactly when value <= X, "more *)
(* than X" exactly when value > X, and a range "X-Y" exactly when           *)
(* X <= value <= Y, both ends included.                                     *)
C19_FormsAsWritten ==
  \A f \in SingleForms : doc = DocOf(f) =>
    \A i \in Calls : Returned(i) =>
      \A k \in 1..Len(LogOf(i)) :
        LogOf(i)[k].component \in {"sugars", "fiber"}
          => (LogOf(i)[k].points = 0 <=> Holds(f.levels[0], LogOf(i)[k].value.num))

---------------------------------------------------------------------------
(* The calculation log and the explanation *)

(* C22: the calculation log holds one contribution for each nutrient of the *)
(* record, in the order energy, sugars, saturated fat, salt, fiber, protein, *)
(* fruit percentage (7 for a complete record without the sweetener flag);   *)
(* the sweetener contribution, when there is one, comes after the negative  *)
(* components and before the positive ones.                                 *)
C22_LogInFixedOrder ==
  \A i \in Calls : Returned(i) =>
    LET order == <<"energy_kcal", "sugars_g", "saturated_fat_g", "salt_g", "sweeteners",
                   "fiber_g", "protein_g", "fruits_veg_nuts_percent">>
        due(p) == IF order[p] = "sweeteners" THEN ArgsOf(i).contains_sweeteners
                  ELSE Has(RecordOf(i), order[p])
        slots == SelectSeq([p \in 1..Len(order) |-> p], due)
    IN  /\ Len(LogOf(i)) = Len(slots)
        /\ \A k \in 1..Len(slots) :
             IF order[slots[k]] = "sweeteners"
               THEN LogOf(i)[k].component = "non_nutritive_sweeteners"
             ELSE /\ LogOf(i)[k].component = ComponentOf(order[slots[k]])
                  /\ LogOf(i)[k].value.num = Val(RecordOf(i), order[slots[k]]).num
        /\ (KeysOf(RecordOf(i)) = NutrientKeys /\ ~ArgsOf(i).contains_sweeteners)
             => Len(LogOf(i)) = 7

\* A complete record supplied in the reverse order got its 7 entries in the
\* fixed order, and a record without salt got the sweetener entry between
\* saturated fat and fiber.
C22_Witness ==
  \E i \in Calls, j \in Calls :
    /\ Returned(i) /\ Returned(j)
    /\ RecordOf(i) = Reversed(Full) /\ Len(LogOf(i)) = 7
    /\ LogOf(i)[1].component = "energy_calories"
    /\ ArgsOf(j).contains_sweeteners /\ ~Has(RecordOf(j), "salt_g")
    /\ Len(LogOf(j)) = 7
    /\ LogOf(j)[3].component = "saturated_fatty_acids"
    /\ LogOf(j)[4].component = "non_nutritive_sweeteners"
    /\ LogOf(j)[5].component = "fiber"

(* C24: the explanation names as main negative factors the two negative    *)
(* contributions of the log with the most points, and as main positive      *)
(* factors the two positive ones with the most points, contributions of     *)
(* equal points in the order of the log; it states the grade; and it is     *)
(* made of the grade, the log and is_beverage alone.                        *)
C24_ExplanationNamesTopTwo ==
  \A i \in Calls : Returned(i) =>
    LET log == LogOf(i)
        said == ResultOf(i).explanation
        side(negative) == {k \in 1..Len(log) : log[k].is_negative = negative}
        ahead(negative, k) ==
          {b \in side(negative) :
             log[b].points > log[k].points \/ (log[b].points = log[k].points /\ b < k)}
        named(negative, main) ==
          /\ Len(main) = IF Cardinality(side(negative)) < 2 THEN Cardinality(side(negative))
                         ELSE 2
          /\ \A q \in 1..Len(main) :
               \E k \in side(negative) :
                 /\ Cardinality(ahead(negative, k)) = q - 1
                 /\ main[q] = [component |-> log[k].component, value |-> log[k].value,
                               points |-> log[k].points]
    IN  /\ named(TRUE, said.main_negative)
        /\ named(FALSE, said.main_positive)
        /\ said.grade = ResultOf(i).grade
        /\ said.product_type = IF ArgsOf(i).is_beverage THEN "beverage" ELSE "food product"
        /\ said.interpretation = IF ResultOf(i).grade \in {"A", "B"} THEN "relatively healthy"
                                 ELSE IF ResultOf(i).grade = "C" THEN "middle range"
                                 ELSE "lower health rating"

\* The main negative factors are a contribution that is not the first of the
\* log and then the first of two contributions of equal points; the main
\* positive factors do not come in the order of the log either.
C24_Witness ==
  \E i \in Calls :
    /\ Returned(i)
    /\ Len(ResultOf(i).explanation.main_negative) = 2
    /\ ResultOf(i).explanation.main_negative[1].component = "saturated_fatty_acids"
    /\ ResultOf(i).explanation.main_negative[2].component = "energy_calories"
    /\ \E k \in 1..Len(LogOf(i)) :
         /\ LogOf(i)[k].component = "sugars"
         /\ LogOf(i)[k].points = ResultOf(i).explanation.main_negative[2].points
    /\ Len(ResultOf(i).explanation.main_positive) = 2
    /\ ResultOf(i).explanation.main_positive[1].component = "protein"
    /\ ResultOf(i).explanation.main_positive[2].component = "fiber"

(* C29: the points that threshold resolution gives a component are an      *)
(* integer of 0..max_points of the component's rule, and 0 when the table   *)
(* has no rule for the component.                                           *)
C29_PointsWithinRule ==
  \A i \in Calls : Returned(i) =>
    \A k \in 1..Len(LogOf(i)) :
      Resolved(i, LogOf(i)[k]) =>
        LET rule == RuleOf(LogOf(i)[k].component, LogOf(i)[k].is_negative)
        IN  IF DOMAIN rule = {} THEN LogOf(i)[k].points = 0
            ELSE LogOf(i)[k].points \in 0..Get(rule, "max_points", 0)

\* In one log: a component without a rule, with 0 points, and a component that
\* satisfied no level of its rule, with max_points.
C29_Witness ==
  \E i \in Calls :
    /\ Returned(i)
    /\ \E k \in 1..Len(LogOf(i)) :
         /\ LogOf(i)[k].component = "salt_sodium"
         /\ DOMAIN RuleOf("salt_sodium", TRUE) = {}
         /\ LogOf(i)[k].points = 0
    /\ \E k \in 1..Len(LogOf(i)) :
         /\ LogOf(i)[k].component = "sugars"
         /\ DOMAIN RuleOf("sugars", TRUE) # {}
         /\ LogOf(i)[k].points = RuleOf("sugars", TRUE).max_points
         /\ LogOf(i)[k].points > 0
         /\ DOMAIN RuleOf("energy_calories", TRUE) # {}

---------------------------------------------------------------------------
(* Failures *)

(* C21: a component that the table has no rule for, or a threshold that     *)
(* does not parse, never makes calculate_score raise, and never changes the *)
(* points of the other components: a component whose rule is that of the    *)
(* complete table gets the points it gets under the complete table.         *)
C21_ComponentFailureIsLocal ==
  \A i \in Calls :
    /\ Returned(i)
    /\ \A k \in 1..Len(LogOf(i)) :
         (/\ Resolved(i, LogOf(i)[k])
          /\ DOMAIN RuleOf(LogOf(i)[k].component, LogOf(i)[k].is_negative) # {}
          /\ RuleOf(LogOf(i)[k].component, LogOf(i)[k].is_negative)
               = Get(Get(CriteriaStd, IF LogOf(i)[k].is_negative THEN "negative_components"
                                      ELSE "positive_components", EmptyDict),
                     LogOf(i)[k].component, EmptyDict))
           => LogOf(i)[k].points
                = _get_points_for_component(CriteriaStd, LogOf(i)[k].component,
                                            LogOf(i)[k].value, LogOf(i)[k].is_negative).points

\* Under the incomplete table a call returned a log with salt (no rule),
\* sugars (two thresholds that do not parse, then one that the value
\* satisfies), fiber (no section) and energy with its points.
C21_Witness ==
  /\ criteria = CriteriaPartial
  /\ \E i \in Calls :
       /\ Returned(i)
       /\ PointsOf(LogOf(i), "energy_calories") > 0
       /\ \E k \in 1..Len(LogOf(i)) :
            LogOf(i)[k].component = "sugars" /\ LogOf(i)[k].points = 2
       /\ \E k \in 1..Len(LogOf(i)) : LogOf(i)[k].component = "salt_sodium"
       /\ \E k \in 1..Len(LogOf(i)) : LogOf(i)[k].component = "fiber"

---------------------------------------------------------------------------
(* The cache and the caller *)

(* C23: the cache key does not depend on the order in which the entries of  *)
(* the record were supplied: a call whose record has the entries of an      *)
(* earlier call's, in whatever order, with the same flags, has the same     *)
(* key, and when that earlier call is the one just before and returned, the *)
(* call is a cache hit.                                                     *)
C23_KeyIgnoresOrder ==
  [][CallMade =>
       \A i \in Calls :
         (/\ SameRecord(RecordOf(i), Made.args.nutrition_data)
          /\ SameFlags(ArgsOf(i), Made.args))
           => /\ KeyOf(ArgsOf(i)) = KeyOf(Made.args)
              /\ (i = Len(history) /\ Returned(i)) => (~Made.raised /\ Made.hit)]_vars

\* The last call had the record of the call before it in the reverse order,
\* and was served from the cache.
C23_Witness ==
  /\ Len(history) >= 2
  /\ RecordOf(Len(history)) = Reversed(RecordOf(Len(history) - 1))
  /\ RecordOf(Len(history)) # RecordOf(Len(history) - 1)
  /\ Len(RecordOf(Len(history))) = 7
  /\ SameFlags(ArgsOf(Len(history)), ArgsOf(Len(history) - 1))
  /\ Returned(Len(history) - 1) /\ ~history[Len(history) - 1].hit
  /\ Returned(Len(history)) /\ history[Len(history)].hit

(* C27: whatever the interleaving of concurrent calls on one calculator,    *)
(* once every call has ended the cache holds at most 128 entries.           *)
C27_BoundedAfterRaces ==
  (\A t \in Threads : frames[t].pc \in {"idle", "done"}) => Len(cache) <= CacheLimit


C26_CallerCannotAlterCache ==
  [][(CallMade /\ ~Made.raised)
       => Made.result = Compute(criteria, Made.args.nutrition_data, Made.args.is_beverage,
                                Made.args.is_cheese, Made.args.contains_sweeteners).result]_vars

(* C28: whatever the calls made before it on the calculator, a call gets   *)
(* what a calculator without a cache gives for its inputs: it raises when   *)
(* that one raises, and else returns a Result of equal content (numbers     *)
(* equal by value, the explanation equal as text).                          *)
C28_CacheNotObservable ==
  \A i \in Calls :
    \E fresh \in {Compute(criteria, RecordOf(i), ArgsOf(i).is_beverage, ArgsOf(i).is_cheese,
                          ArgsOf(i).contains_sweeteners)} :
      /\ history[i].raised = fresh.raised
      /\ Returned(i) =>
           /\ \A field \in DOMAIN fresh.result \ {"calculation_log"} :
                ResultOf(i)[field] = fresh.result[field]
           /\ Len(LogOf(i)) = Len(fresh.result.calculation_log)
           /\ \A k \in 1..Len(LogOf(i)) :
                /\ DOMAIN LogOf(i)[k] = DOMAIN fresh.result.calculation_log[k]
                /\ \A field \in DOMAIN LogOf(i)[k] \ {"value"} :
                     LogOf(i)[k][field] = fresh.result.calculation_log[k][field]
                /\ IF IsNum(LogOf(i)[k].value)
                     THEN /\ IsNum(fresh.result.calculation_log[k].value)
                          /\ LogOf(i)[k].value.num = fresh.result.calculation_log[k].value.num
                   ELSE LogOf(i)[k].value = fresh.result.calculation_log[k].value

(* C30: when calculate_score raises, on a grade band whose bound is not a   *)
(* number or on a nutrient value that cannot be compared with a number, the *)
(* cache is left as it was before the call: no entry added, none evicted.   *)
C30_RaiseLeavesCache ==
  [][(CallMade /\ Made.raised) => cache' = cache]_vars

\* A call returned and its Result is in the cache; the next call, with
\* numbers for values, raised on the band, and the cache holds that one entry.
C30_Witness ==
  /\ Len(history) = 2
  /\ Returned(1) /\ ~history[1].hit
  /\ history[2].raised
  /\ \A k \in 1..Len(RecordOf(2)) : IsNum(RecordOf(2)[k][2])
  /\ Len(cache) = 1 /\ cache[1].key = KeyOf(ArgsOf(1))

====
